---- MODULE Spec2Model ----
(***************************************************************************)
(* The Gemma pipeline of mistralrs-core (pipeline/gemma.rs): the loader's  *)
(* two-phase construction (download_model, _setup_model) and the           *)
(* operations of GemmaPipeline (forward, sample, eos_tok, introspection).  *)
(* External collaborators (artifact store, tensor library, tokenizer file, *)
(* per-sequence sampler) are inputs drawn with \E in the actions.          *)
(***************************************************************************)
EXTENDS Integers, Sequences, FiniteSets, TLC

\* ---- bounds -------------------------------------------------------------
MaxLen == 2        \* longest token history of a sequence handed to sample
MaxRepeat == 3     \* largest configured repeat_last_n (exceeds MaxLen)
MaxCache == 2      \* successful forward calls whose cache growth is tracked

\* ---- data ---------------------------------------------------------------
ModelKind ==
    {"QuantizedGGUF", "QuantizedGGML", "Normal", "XLoraNormal", "XLoraGGUF", "XLoraGGML"}

\* The Option<..> fields of GemmaModelPaths. A GemmaModelPaths value is
\* modelled by the set of these fields that are Some; the four non-optional
\* paths are always there.
AdapterFields ==
    {"xlora_adapter_filenames", "xlora_adapter_configs", "classifier_path",
     "classifier_config", "xlora_ordering"}

GemmaModelPaths == [adapter : SUBSET AdapterFields]

GemmaSpecificConfig == [repeat_last_n : 0..MaxRepeat]

\* The loader's fields that decide what is built. xlora_model_id is
\* modelled by whether it is Some.
GemmaLoader ==
    [kind : ModelKind, xlora_model_id : {"None", "Some"},
     config : GemmaSpecificConfig, no_kv_cache : BOOLEAN]

\* The hyperparameters the pipeline's introspection reports.
BasicConfig == [num_hidden_layers |-> 2, max_position_embeddings |-> 4096]

Devices == {"cpu"}

TokenIds == 0..1
Histories == UNION {[1..n -> TokenIds] : n \in 0..MaxLen}

\* Tokenizer files: the vocabulary (token string -> id) each one loads.
Tokenizers ==
    {[s \in {"<eos>", "<pad>"} |-> IF s = "<eos>" THEN 1 ELSE 0],
     [s \in {"<eos>", "</s>"} |-> IF s = "<eos>" THEN 2 ELSE 1]}

EosStrings == {"<eos>", "</s>"}

\* ChatTemplate.eos_token : Either<String, AddedTokensDecoder>
ChatTemplates ==
    {[eos_token |-> [side |-> "Left", lit |-> s]] : s \in EosStrings}
    \cup {[eos_token |-> [side |-> "Right", added |-> [content |-> s, special |-> TRUE]]]
            : s \in EosStrings}

Min(a, b) == IF a <= b THEN a ELSE b

\* ---- results of calls ---------------------------------------------------
Ok(v) == [tag |-> "Ok", v |-> v]
Err(e) == [tag |-> "Err", v |-> e]
Panic(msg) == [tag |-> "Panic", v |-> msg]

VARIABLES
    loader,      \* the GemmaLoader (immutable after GemmaLoader::new)
    pipeline,    \* <<>> or <<p>>: the published GemmaPipeline
    cache,       \* model.cache: forward calls whose key/values it holds
    logits,      \* the tensor the caller holds from the last forward
    status,      \* "running" | "panicked"
    last         \* the last call: its name, inputs and result

vars == <<loader, pipeline, cache, logits, status, last>>


\* ---- GemmaLoader::download_model ----------------------------------------
\* get_xlora_paths(&self.xlora_model_id, ..): the adapter bundle is resolved
\* from the adapter model id alone; the call is not given self.kind.
get_xlora_paths(xlora_model_id) ==
    IF xlora_model_id = "Some" THEN AdapterFields ELSE {}

\* The fallible steps of download_model, in order; each is followed by `?`.
DownloadSteps ==
    <<"get_token", "api_build", "tokenizer.json", "config.json", "get_model_paths",
      "get_xlora_paths", "tokenizer_config.json">>

\* failed: the first step that fails, or "none".
download_model(ld, failed) ==
    IF failed # "none"
    THEN Err(failed)
    ELSE Ok([adapter |-> get_xlora_paths(ld.xlora_model_id)])

\* ---- GemmaLoader::_setup_model ------------------------------------------
\* `expr?`: a failed step returns its error to the caller of _setup_model.
Try(what, file) == [k |-> "try", what |-> what, field |-> file]
\* `paths.get_x().as_ref().unwrap()`: panics when the field is None.
Unwrap(field) == [k |-> "unwrap", what |-> "unwrap", field |-> field]
Unreachable == [k |-> "unreachable", what |-> "unreachable", field |-> "none"]

\* MatchKindArm with the classifier path pushed onto the weight files before
\* the match, so the Normal arm needs it too.
MatchKindArmSharedClassifier(kind) ==
    CASE kind = "Normal" ->
           <<Unwrap("classifier_path"),
             Try("from_mmaped_safetensors", "filenames"), Try("Model::new", "none")>>
      [] kind = "XLoraNormal" ->
           <<Unwrap("classifier_path"), Unwrap("xlora_adapter_filenames"),
             Try("from_mmaped_safetensors", "filenames"),
             Unwrap("xlora_adapter_configs"), Unwrap("classifier_config"),
             Unwrap("xlora_ordering"), Try("Model::new", "none")>>
      [] OTHER -> <<Unreachable>>

\* The arm of `match self.kind`.
MatchKindArm(kind) ==
    CASE kind = "Normal" ->
           <<Try("from_mmaped_safetensors", "filenames"), Try("Model::new", "none")>>
      [] kind = "XLoraNormal" ->
           <<Unwrap("classifier_path"), Unwrap("xlora_adapter_filenames"),
             Try("from_mmaped_safetensors", "filenames"),
             Unwrap("xlora_adapter_configs"), Unwrap("classifier_config"),
             Unwrap("xlora_ordering"), Try("Model::new", "none")>>
      [] OTHER -> <<Unreachable>>

\* BuiltVariant with the XLoraNormal arm wrapping its model in Model::Normal.
BuiltVariantAlwaysNormal(kind) == "Normal"

\* The variant the arm wraps the built model in.
BuiltVariant(kind) == IF kind = "Normal" THEN "Normal" ELSE "XLoraNormal"

SetupSteps(kind) ==
    <<Try("config", "config_filename")>> \o MatchKindArm(kind)
      \o <<Try("Tokenizer::from_file", "tokenizer_filename"),
           Try("deserialize_chat_template", "template_filename")>>

\* Question with `.unwrap()` written for `?`.
QuestionAsUnwrap(what) == Panic(what)

\* What a failed `?` step does to the call.
Question(what) == Err(what)

\* Runs the steps in order. failed is the fallible step that fails ("none":
\* every one succeeds); read collects the fields of paths that were read.
RECURSIVE RunSteps(_, _, _, _)
RunSteps(steps, paths, failed, read) ==
    IF steps = <<>>
    THEN [ret |-> Ok("built"), read |-> read]
    ELSE LET s == Head(steps)
             rd == IF s.field = "none" THEN read ELSE read \cup {s.field}
         IN  CASE s.k = "unreachable" ->
                    [ret |-> Panic("entered unreachable code"), read |-> rd]
               [] s.k = "unwrap" ->
                    IF s.field \in paths.adapter
                    THEN RunSteps(Tail(steps), paths, failed, rd)
                    ELSE [ret |-> Panic("unwrap on None"), read |-> rd]
               [] OTHER ->
                    IF failed = s.what
                    THEN [ret |-> Question(s.what), read |-> rd]
                    ELSE RunSteps(Tail(steps), paths, failed, rd)

FallibleSteps ==
    {"none", "config", "from_mmaped_safetensors", "Model::new", "Tokenizer::from_file"}

\* deserialize_chat_template!(paths, self): yields the template read from
\* the template file (or the loader's override).
deserialize_chat_template(tmpl) == tmpl

\* The GemmaPipeline value of the final Ok(..).
NewPipeline(ld, device, tok, tmpl) ==
    [model |-> [variant |-> BuiltVariant(ld.kind), device |-> device,
                max_seq_len |-> BasicConfig.max_position_embeddings,
                num_layers |-> BasicConfig.num_hidden_layers],
     tokenizer |-> tok,
     config |-> ld.config,
     no_kv_cache |-> ld.no_kv_cache,
     chat_template |-> deserialize_chat_template(tmpl)]

setup_model(ld, paths, failed) ==
    RunSteps(SetupSteps(ld.kind), paths, failed, {})

\* ---- GemmaPipeline: pure reads -------------------------------------------
is_xlora(p) ==
    CASE p.model.variant = "Normal" -> FALSE
      [] p.model.variant = "XLoraNormal" -> TRUE

device(p) == p.model.device

num_hidden_layers(p) == p.model.num_layers

get_max_seq_len(p) == p.model.max_seq_len

has_no_kv_cache(p) == p.no_kv_cache

get_chat_template(p) == p.chat_template

tokenizer(p) == p.tokenizer

name(p) == "gemma"

\* ---- GemmaPipeline::eos_tok ---------------------------------------------
\* The string the match on chat_template.eos_token selects.
EosString(tmpl) ==
    IF tmpl.eos_token.side = "Left"
    THEN tmpl.eos_token.lit
    ELSE tmpl.eos_token.added.content

\* eos_tok with unwrap_or_default() for unwrap_or_else(|| panic!(..)).
eos_tok_or_default(p) ==
    LET s == EosString(get_chat_template(p))
    IN  IF s \in DOMAIN p.tokenizer THEN Ok(p.tokenizer[s]) ELSE Ok(0)

\* get_vocab(true).get(eos_tok).copied().unwrap_or_else(|| panic!(..))
eos_tok(p) ==
    LET s == EosString(get_chat_template(p))
    IN  IF s \in DOMAIN p.tokenizer
        THEN Ok(p.tokenizer[s])
        ELSE Panic("Unable to extract EOS token")

\* ---- GemmaPipeline::sample ----------------------------------------------
saturating_sub(a, b) == IF a >= b THEN a - b ELSE 0

\* start_at with the operands of saturating_sub exchanged.
start_at_swapped(toks, repeat_last_n) == saturating_sub(repeat_last_n, Len(toks))

start_at(toks, repeat_last_n) == saturating_sub(Len(toks), repeat_last_n)

\* get_toks()[start_at..].to_vec()
ctxt(toks, repeat_last_n) ==
    SubSeq(toks, start_at(toks, repeat_last_n) + 1, Len(toks))

\* SeqAfterSample with the sampled position also pushed onto the history.
SeqAfterSamplePush(seq) == [seq EXCEPT !.toks = Append(@, 0), !.sampler_calls = 1]

\* The sequence after logits_processor().sample(..): the sampler it owns has
\* been used; get_toks() is only read.
SeqAfterSample(seq) == [seq EXCEPT !.sampler_calls = 1]

\* sampled: the sampler's result, Ok(token) or Err(..), passed on by `?`.
sample(p, seq, sampled) ==
    [ret |-> sampled,
     ctxt |-> ctxt(seq.toks, p.config.repeat_last_n),
     seq_after |-> SeqAfterSample(seq)]

\* ---- GemmaPipeline::forward ---------------------------------------------
IncrementalInputs == {"input_ids", "seqlen_offsets", "seqlen_offsets_kernel"}

FullInputs == {"input_ids_full", "seqlen_offsets_full", "seqlen_offsets_full_kernel"}

\* calculate_inputs(input_toks, is_prompt, is_xlora, device, no_kv_cache):
\* the inputs that come back as values (not None). The full-path inputs are
\* produced solely when is_xlora is set.
calculate_inputs(is_prompt, xlora, no_kv_cache) ==
    IncrementalInputs \cup (IF xlora THEN FullInputs ELSE {})

\* InputAssemblyFlag with a literal false passed for self.is_xlora().
InputAssemblyFlagFalse(p) == FALSE

\* The variant flag forward hands to calculate_inputs.
InputAssemblyFlag(p) == is_xlora(p)

\* `match self.model`: the inputs the arm unwraps and the arguments it
\* passes to the model's forward.
Dispatch(p) ==
    CASE p.model.variant = "Normal" ->
           [unwraps |-> {}, args |-> IncrementalInputs, no_kv_cache |-> "not passed"]
      [] p.model.variant = "XLoraNormal" ->
           [unwraps |-> FullInputs,
            args |-> IncrementalInputs \cup FullInputs \cup {"no_kv_cache"},
            no_kv_cache |-> p.no_kv_cache]

\* MatchResult that hands back whatever the model produced, error or not.
MatchResultLenient(result) == Ok(result.v)

\* `match result`: Ok(v) => v, Err(e) => panic!(..)
MatchResult(result) ==
    IF result.tag = "Ok" THEN Ok(result.v) ELSE Panic("Model failed with error")

\* result: what the model's forward computes, Ok(tensor) or Err(..).
forward(p, is_prompt, result) ==
    LET flag == InputAssemblyFlag(p)
        inputs == calculate_inputs(is_prompt, flag, p.no_kv_cache)
        d == Dispatch(p)
    IN  [flag |-> flag, inputs |-> inputs, unwraps |-> d.unwraps,
         called |-> d.unwraps \subseteq inputs,
         args |-> d.args, no_kv_cache |-> d.no_kv_cache,
         ret |-> IF d.unwraps \subseteq inputs
                 THEN MatchResult(result)
                 ELSE Panic("unwrap on None")]

\* ---- the state machine ---------------------------------------------------
\* GemmaLoader::new stores its arguments; nothing is loaded yet.
Init ==
    /\ loader \in GemmaLoader
    /\ pipeline = <<>>
    /\ cache = 0
    /\ logits = "none"
    /\ status = "running"
    /\ last = [op |-> "new"]

Running == status = "running"

Built == Running /\ pipeline # <<>>

DownloadModel ==
    /\ Running
    /\ pipeline = <<>>
    /\ \E failed \in {"none"} \cup {DownloadSteps[i] : i \in DOMAIN DownloadSteps} :
         last' = [op |-> "download_model", failed |-> failed,
                  ret |-> download_model(loader, failed)]
    /\ UNCHANGED <<loader, pipeline, cache, logits, status>>

SetupModel ==
    /\ Running
    /\ pipeline = <<>>
    /\ \E paths \in GemmaModelPaths, failed \in FallibleSteps :
         LET r == setup_model(loader, paths, failed)
         IN  /\ last' = [op |-> "_setup_model", paths |-> paths, failed |-> failed,
                         ret |-> r.ret, read |-> r.read]
             /\ status' = IF r.ret.tag = "Panic" THEN "panicked" ELSE status
             /\ IF r.ret.tag = "Ok"
                THEN \E dev \in Devices, tok \in Tokenizers, tmpl \in ChatTemplates :
                       pipeline' = <<NewPipeline(loader, dev, tok, tmpl)>>
                ELSE pipeline' = pipeline
    /\ UNCHANGED <<loader, cache, logits>>

Forward ==
    /\ Built
    /\ cache < MaxCache
    /\ \E is_prompt \in BOOLEAN, result \in {Ok("logits"), Err("compute failure")} :
         LET f == forward(pipeline[1], is_prompt, result)
         IN  /\ last' = [op |-> "forward", is_prompt |-> is_prompt,
                         result |-> IF f.called THEN result.tag ELSE "not called",
                         flag |-> f.flag, inputs |-> f.inputs, unwraps |-> f.unwraps,
                         args |-> f.args, no_kv_cache |-> f.no_kv_cache, ret |-> f.ret]
             /\ IF f.ret.tag = "Ok"
                THEN /\ logits' = f.ret.v
                     /\ cache' = cache + 1
                     /\ status' = status
                ELSE /\ logits' = "none"
                     /\ cache' = cache
                     /\ status' = "panicked"
    /\ UNCHANGED <<loader, pipeline>>

Sample ==
    /\ Built
    /\ logits # "none"
    /\ \E toks \in Histories, ok \in BOOLEAN, t \in TokenIds :
         LET seq == [toks |-> toks, sampler_calls |-> 0]
             sampled == IF ok THEN Ok(t) ELSE Err("sampling")
             r == sample(pipeline[1], seq, sampled)
         IN  last' = [op |-> "sample", logits |-> logits, seq |-> seq,
                      ctxt |-> r.ctxt, seq_after |-> r.seq_after, ret |-> r.ret]
    /\ logits' = "none"
    /\ UNCHANGED <<loader, pipeline, cache, status>>

EosTok ==
    /\ Built
    /\ LET r == eos_tok(pipeline[1])
       IN  /\ last' = [op |-> "eos_tok", ret |-> r]
           /\ status' = IF r.tag = "Panic" THEN "panicked" ELSE status
    /\ UNCHANGED <<loader, pipeline, cache, logits>>

\* The &self operations: each returns a value read from the pipeline.
Device ==
    /\ Built
    /\ last' = [op |-> "device", ret |-> device(pipeline[1])]
    /\ UNCHANGED <<loader, pipeline, cache, logits, status>>

\* self.cache().lock().len()
NumHiddenLayers ==
    /\ Built
    /\ last' = [op |-> "num_hidden_layers", ret |-> num_hidden_layers(pipeline[1])]
    /\ UNCHANGED <<loader, pipeline, cache, logits, status>>

\* cache(): a reference to the model's cache.
CacheRef ==
    /\ Built
    /\ last' = [op |-> "cache", ret |-> cache]
    /\ UNCHANGED <<loader, pipeline, cache, logits, status>>

TokenizerClone ==
    /\ Built
    /\ last' = [op |-> "tokenizer", ret |-> tokenizer(pipeline[1])]
    /\ UNCHANGED <<loader, pipeline, cache, logits, status>>

Name ==
    /\ Built
    /\ last' = [op |-> "name", ret |-> name(pipeline[1])]
    /\ UNCHANGED <<loader, pipeline, cache, logits, status>>

GetMaxSeqLen ==
    /\ Built
    /\ last' = [op |-> "get_max_seq_len", ret |-> get_max_seq_len(pipeline[1])]
    /\ UNCHANGED <<loader, pipeline, cache, logits, status>>

IsXlora ==
    /\ Built
    /\ last' = [op |-> "is_xlora", ret |-> is_xlora(pipeline[1])]
    /\ UNCHANGED <<loader, pipeline, cache, logits, status>>

HasNoKvCache ==
    /\ Built
    /\ last' = [op |-> "has_no_kv_cache", ret |-> has_no_kv_cache(pipeline[1])]
    /\ UNCHANGED <<loader, pipeline, cache, logits, status>>

GetChatTemplate ==
    /\ Built
    /\ last' = [op |-> "get_chat_template", ret |-> get_chat_template(pipeline[1])]
    /\ UNCHANGED <<loader, pipeline, cache, logits, status>>

Next ==
    \/ DownloadModel
    \/ SetupModel
    \/ Forward
    \/ Sample
    \/ EosTok
    \/ Device
    \/ NumHiddenLayers
    \/ CacheRef
    \/ TokenizerClone
    \/ Name
    \/ GetMaxSeqLen
    \/ IsXlora
    \/ HasNoKvCache
    \/ GetChatTemplate

Spec == Init /\ [][Next]_vars

\* ---- properties ------------------------------------------------------------
SupportedKinds == {"Normal", "XLoraNormal"}

\* Artifacts are well formed for a kind: no load step fails, and the adapter
\* fields are all there when the kind is XLoraNormal.
WellFormed(kind, paths, failed) ==
    /\ failed = "none"
    /\ kind = "XLoraNormal" => AdapterFields \subseteq paths.adapter

\* C1: for a history of length L and configured repeat_last_n = R (R = 0 and
\* R > L included) the context sample passes to the sampler has length
\* min(L, R) and is the last min(L, R) tokens of the history, in order.
C1_RepetitionWindow ==
    last.op = "sample" =>
        LET toks == last.seq.toks
            L == Len(toks)
            R == loader.config.repeat_last_n
            m == Min(L, R)
        IN  /\ Len(last.ctxt) = m
            /\ \A i \in 1..m : last.ctxt[i] = toks[L - m + i]

C1_Witness ==
    /\ last.op = "sample"
    /\ loader.config.repeat_last_n = 1
    /\ last.seq.toks = <<0, 1>>
    /\ last.ctxt = <<1>>

\* C2: for each supported kind, _setup_model on well-formed artifacts
\* succeeds, and in every state afterwards the pipeline's variant, and what
\* is_xlora returns, is XLoraNormal exactly when that was the loader's kind.
C2_VariantMatchesKind ==
    /\ ( /\ last.op = "_setup_model"
         /\ loader.kind \in SupportedKinds
         /\ WellFormed(loader.kind, last.paths, last.failed) )
       => (last.ret.tag = "Ok" /\ pipeline # <<>>)
    /\ pipeline # <<>> =>
         ((pipeline[1].model.variant = "XLoraNormal") <=> (loader.kind = "XLoraNormal"))
    /\ last.op = "is_xlora" => (last.ret <=> (loader.kind = "XLoraNormal"))

C2_Witness ==
    /\ last.op = "is_xlora"
    /\ last.ret = TRUE
    /\ loader.kind = "XLoraNormal"
    /\ cache > 0

\* C3: building a Normal pipeline reads no adapter-only field and succeeds
\* with them present or absent; building an XLoraNormal pipeline with any
\* adapter field missing fails inside _setup_model and publishes nothing.
C3_VariantIsolation ==
    last.op = "_setup_model" =>
        /\ loader.kind = "Normal" =>
             /\ last.read \cap AdapterFields = {}
             /\ last.failed = "none" => (last.ret.tag = "Ok" /\ pipeline # <<>>)
        /\ (loader.kind = "XLoraNormal" /\ ~(AdapterFields \subseteq last.paths.adapter)) =>
             /\ last.ret.tag # "Ok"
             /\ pipeline = <<>>

C3_Witness ==
    /\ last.op = "_setup_model"
    /\ loader.kind = "XLoraNormal"
    /\ last.paths.adapter = AdapterFields \ {"xlora_ordering"}
    /\ last.failed = "none"
    /\ last.ret.tag = "Panic"
    /\ pipeline = <<>>

\* C4: a loader whose kind is an unimplemented format is rejected by the
\* first load call with an explicit unsupported-configuration error: neither
\* download_model nor _setup_model succeeds or reports some other error for
\* it, and no pipeline is published.
C4_UnsupportedRejectedAtOnce ==
    (loader.kind \notin SupportedKinds /\ last.op \in {"download_model", "_setup_model"}) =>
        /\ last.ret.tag \in {"Err", "Panic"}
        /\ last.ret.v = "unsupported configuration"
        /\ pipeline = <<>>

\* C5: whenever eos_tok returns, it returns the id the tokenizer's vocabulary
\* maps the template's EOS string (the literal, or the added token's content)
\* to; if the string is not in the vocabulary the call panics.
C5_EosTokFromVocab ==
    last.op = "eos_tok" =>
        LET e == pipeline[1].chat_template.eos_token
            s == IF e.side = "Left" THEN e.lit ELSE e.added.content
            vocab == pipeline[1].tokenizer
        IN  /\ last.ret.tag \in {"Ok", "Panic"}
            /\ last.ret.tag = "Ok" => (s \in DOMAIN vocab /\ last.ret.v = vocab[s])
            /\ s \notin DOMAIN vocab => (last.ret.tag = "Panic" /\ status = "panicked")

C5_Witness ==
    /\ last.op = "eos_tok"
    /\ pipeline[1].chat_template.eos_token.side = "Right"
    /\ pipeline[1].chat_template.eos_token.added.content = "</s>"
    /\ last.ret.tag = "Ok"
    /\ last.ret.v = 1

\* C6: when the model's forward computation fails, forward panics and returns
\* nothing; logits reach the caller, and from there sample, only from a
\* computation that succeeded.
C6_ForwardFailureIsFatal ==
    /\ (last.op = "forward" /\ last.result = "Err") =>
         (last.ret.tag = "Panic" /\ status = "panicked" /\ logits = "none")
    /\ (last.op = "forward" /\ last.ret.tag = "Ok") =>
         (last.result = "Ok" /\ logits = "logits")
    /\ last.op = "sample" => last.logits = "logits"

C6_Witness ==
    /\ last.op = "forward"
    /\ last.result = "Err"
    /\ status = "panicked"
    /\ pipeline[1].model.variant = "XLoraNormal"

\* Every component of a published pipeline is set, from the loader and the
\* loaded files.
Complete(p) ==
    /\ p.model.variant \in SupportedKinds
    /\ p.tokenizer \in Tokenizers
    /\ p.config = loader.config
    /\ p.no_kv_cache = loader.no_kv_cache
    /\ p.chat_template \in ChatTemplates

C8_AdapterFieldsMatchKind ==
    (last.op = "download_model" /\ last.ret.tag = "Ok") =>
        /\ last.ret.v.adapter \in {{}, AdapterFields}
        /\ (last.ret.v.adapter = AdapterFields) <=> (loader.kind = "XLoraNormal")

ReadOps ==
    {"device", "cache", "num_hidden_layers", "get_max_seq_len", "is_xlora",
     "has_no_kv_cache", "tokenizer", "name"}

\* C9: once published, the pipeline's variant, tokenizer, repeat_last_n,
\* no-cache flag and chat template never change, and its cache changes only
\* in forward; sample and the read operations change none of them, and
\* sample leaves the sequence's token history as it was.
C9_OnlyForwardMutates ==
    [][ /\ pipeline # <<>> => pipeline' = pipeline
        /\ cache' # cache => last'.op = "forward"
        /\ last'.op \in ReadOps \cup {"sample"} =>
             (pipeline' = pipeline /\ cache' = cache /\ status' = status)
        /\ last'.op = "sample" => last'.seq_after.toks = last'.seq.toks ]_vars

C9_Witness ==
    /\ last.op = "sample"
    /\ cache > 0
    /\ Len(last.seq.toks) = 2
    /\ last.seq_after.sampler_calls = 1
    /\ last.ret.tag = "Ok"

\* C10: the flag forward gives to input assembly is the variant its dispatch
\* matches on: a Normal pipeline unwraps no full-path input and calls the
\* model with the incremental inputs only; an XLoraNormal pipeline asks for
\* the full-path inputs and calls the model with incremental and full-path
\* inputs and its no_kv_cache flag; the model is always reached.
C10_DispatchMatchesFlag ==
    last.op = "forward" =>
        LET p == pipeline[1]
        IN  /\ last.flag <=> (p.model.variant = "XLoraNormal")
            /\ p.model.variant = "Normal" =>
                 (last.unwraps = {} /\ last.args = IncrementalInputs)
            /\ p.model.variant = "XLoraNormal" =>
                 /\ FullInputs \subseteq last.inputs
                 /\ last.args = IncrementalInputs \cup FullInputs \cup {"no_kv_cache"}
                 /\ last.no_kv_cache = p.no_kv_cache
            /\ last.result # "not called"
            /\ last.ret.v # "unwrap on None"

C10_Witness ==
    /\ last.op = "forward"
    /\ pipeline[1].model.variant = "XLoraNormal"
    /\ pipeline[1].no_kv_cache = TRUE
    /\ last.ret.tag = "Ok"

====
